---- MODULE Spec2Model ----
(***************************************************************************)
(* The SOL escrow program of escrow/programs/escrow/src/lib.rs as a state  *)
(* machine.  One action per instruction handler (create_escrow,            *)
(* fund_escrow, complete_swap, cancel_escrow, refund_after_expiry), each   *)
(* preceded by the account validation its #[derive(Accounts)] struct       *)
(* states, plus the advance of the cluster clock.                          *)
(*                                                                         *)
(* Every instruction runs inside one transaction of the host runtime: a    *)
(* handler that returns Err leaves no trace in the accounts, whatever it   *)
(* had written before the failing statement.                               *)
(*                                                                         *)
(* Lamports are counted net of what the runtime itself moves around an     *)
(* instruction (the rent-exempt reserve that `init` places in the escrow   *)
(* account and the transaction fee): lamports[p] is what party p can       *)
(* spend, escrow_lamports[k] is what the escrow account k holds above its  *)
(* reserve.                                                                *)
(***************************************************************************)
EXTENDS Integers, Sequences, FiniteSets, TLC

\* ------------------------------------------------------------ bounds
MaxAmount == 2          \* amounts offered to create_escrow are 0..MaxAmount
MaxTime == 2            \* the clock runs over 0..MaxTime
InitLamports == 3       \* what every party can spend at the start
ShortLamports == 1      \* what a maker short of funds can spend at the start

\* ------------------------------------------------------------ identities
Parties == {"M", "K", "X"}
None == "None"
EscrowIds == {1}
\* An escrow account is addressed by its PDA seeds (maker, escrow_id).
Keys == Parties \X EscrowIds
Amounts == 0..MaxAmount
Times == 0..MaxTime

\* The bump find_program_address yields for the seeds: a function of the seeds.
Bump(maker, escrow_id) == 255 - escrow_id

\* An account that `init` has not created yet.
Uninitialized ==
    [initialized |-> FALSE, maker |-> None, taker |-> None, escrow_id |-> 0,
     amount_a |-> 0, amount_b_expected |-> 0, is_funded |-> FALSE,
     is_active |-> FALSE, is_completed |-> FALSE, expiry_ts |-> 0, bump |-> 0]

\* What is remembered of the value that went into and out of an escrow account:
\* the amount of every transfer, by its statement, and the handlers that paid out.
NoFlows ==
    [deposited_maker |-> 0, deposited_taker |-> 0, paid_maker |-> 0,
     paid_taker |-> 0, refunded_maker |-> 0, payouts |-> << >>, funded |-> 0]

VARIABLES
    escrow,             \* Keys -> EscrowAccount data
    escrow_lamports,    \* Keys -> lamports the escrow account holds
    lamports,           \* Parties -> lamports of the party's account
    now,                \* Clock::get()?.unix_timestamp
    emitted,            \* the event in the log of the latest transaction that committed
    flows,              \* Keys -> the transfers made into and out of the escrow
    makers              \* the parties that open escrows in this run

vars == <<escrow, escrow_lamports, lamports, now, emitted, flows, makers>>

\* No escrow account exists yet.
NoEscrows ==
    /\ escrow = [k \in Keys |-> Uninitialized]
    /\ escrow_lamports = [k \in Keys |-> 0]
    /\ lamports = [p \in Parties |-> InitLamports]
    /\ now = 0
    /\ emitted = [name |-> "none"]
    /\ flows = [k \in Keys |-> NoFlows]

\* One party opens escrows; every party may fund, complete, cancel and refund.
Init == NoEscrows /\ makers = {"M"}

\* Two parties open escrows, so that two escrow accounts live side by side.
InitTwo == NoEscrows /\ makers = {"M", "K"}

\* The party that opens escrows starts with less than the largest amount it
\* may offer, so that the transfer of a deposit can fail for lack of funds.
InitShort ==
    /\ escrow = [k \in Keys |-> Uninitialized]
    /\ escrow_lamports = [k \in Keys |-> 0]
    /\ lamports = [p \in Parties |-> IF p = "K" THEN ShortLamports ELSE InitLamports]
    /\ now = 0
    /\ emitted = [name |-> "none"]
    /\ flows = [k \in Keys |-> NoFlows]
    /\ makers = {"K"}

\* A failed instruction: the runtime rolls the transaction back, and nothing of
\* it remains but the error handed to the caller (the *_result operators).
Fail == UNCHANGED vars

First(results) ==
    IF \E i \in 1..Len(results) : results[i] # "Ok"
    THEN results[CHOOSE i \in 1..Len(results) :
                    /\ results[i] # "Ok"
                    /\ \A j \in 1..(i - 1) : results[j] = "Ok"]
    ELSE "Ok"

\* system_program::transfer: fails when the payer cannot cover the amount.
transfer_result(from, amount) ==
    IF lamports[from] < amount THEN "InsufficientLamports" ELSE "Ok"

\* `**escrow.lamports -= amount` on a u64: a balance below the amount panics
\* (overflow checks) or wraps and unbalances the instruction; both fail it.
debit_result(k, amount) ==
    IF escrow_lamports[k] < amount THEN "ProgramFailed" ELSE "Ok"

credit(balances, who, amount) == [balances EXCEPT ![who] = @ + amount]

debit(balances, who, amount) == [balances EXCEPT ![who] = @ - amount]

\* ------------------------------------------------------------ create_escrow
\* A variant with init_if_needed in place of init: an existing account is taken over.
CreateEscrow_accounts_if_needed(k) == "Ok"

\* `init`: the system program refuses to create an account that exists.
CreateEscrow_accounts(k) ==
    IF escrow[k].initialized THEN "AccountAlreadyInUse" ELSE "Ok"

\* A variant without the check of amount_b_expected.
create_escrow_require_no_amount_b_check(amount_a, amount_b_expected, expiry_ts) ==
    IF ~(amount_a > 0) THEN "InvalidAmount"
    ELSE IF ~(expiry_ts > now) THEN "InvalidExpiry"
    ELSE "Ok"

\* A variant that accepts an expiry equal to the current time (>= for >).
create_escrow_require_expiry_now(amount_a, amount_b_expected, expiry_ts) ==
    IF ~(amount_a > 0) THEN "InvalidAmount"
    ELSE IF ~(amount_b_expected > 0) THEN "InvalidAmount"
    ELSE IF ~(expiry_ts >= now) THEN "InvalidExpiry"
    ELSE "Ok"

create_escrow_require(amount_a, amount_b_expected, expiry_ts) ==
    IF ~(amount_a > 0) THEN "InvalidAmount"
    ELSE IF ~(amount_b_expected > 0) THEN "InvalidAmount"
    ELSE IF ~(expiry_ts > now) THEN "InvalidExpiry"
    ELSE "Ok"

create_escrow_result(maker, escrow_id, amount_a, amount_b_expected, expiry_ts) ==
    First(<<CreateEscrow_accounts(<<maker, escrow_id>>),
            create_escrow_require(amount_a, amount_b_expected, expiry_ts),
            transfer_result(maker, amount_a)>>)

create_escrow_account(maker, escrow_id, amount_a, amount_b_expected, expiry_ts, taker_pubkey) ==
    [initialized |-> TRUE, maker |-> maker, taker |-> taker_pubkey,
     escrow_id |-> escrow_id, amount_a |-> amount_a,
     amount_b_expected |-> amount_b_expected, is_funded |-> FALSE,
     is_active |-> TRUE, is_completed |-> FALSE, expiry_ts |-> expiry_ts,
     bump |-> Bump(maker, escrow_id)]

\* A variant in which the field writes that precede the transfer survive the
\* transfer's failure.
create_escrow_keeps_writes(maker, escrow_id, amount_a, amount_b_expected, expiry_ts, taker_pubkey) ==
    LET k == <<maker, escrow_id>>
    IN  IF First(<<CreateEscrow_accounts(k),
                   create_escrow_require(amount_a, amount_b_expected, expiry_ts)>>) # "Ok"
        THEN Fail
        ELSE
          /\ escrow' = [escrow EXCEPT ![k] =
                 create_escrow_account(maker, escrow_id, amount_a,
                                       amount_b_expected, expiry_ts, taker_pubkey)]
          /\ IF transfer_result(maker, amount_a) # "Ok"
             THEN UNCHANGED <<lamports, escrow_lamports, emitted, flows>>
             ELSE /\ lamports' = debit(lamports, maker, amount_a)
                  /\ escrow_lamports' = credit(escrow_lamports, k, amount_a)
                  /\ emitted' =
                         [name |-> "EscrowCreated", escrow |-> k, maker |-> maker,
                          escrow_id |-> escrow_id, amount_a |-> amount_a,
                          amount_b_expected |-> amount_b_expected,
                          expiry_ts |-> expiry_ts, ts |-> now]
                  /\ flows' = [flows EXCEPT ![k].deposited_maker = @ + amount_a]
          /\ UNCHANGED <<now, makers>>

create_escrow(maker, escrow_id, amount_a, amount_b_expected, expiry_ts, taker_pubkey) ==
    LET k == <<maker, escrow_id>>
    IN  IF create_escrow_result(maker, escrow_id, amount_a, amount_b_expected,
                                expiry_ts) # "Ok"
        THEN Fail
        ELSE
          /\ escrow' = [escrow EXCEPT ![k] =
                 create_escrow_account(maker, escrow_id, amount_a,
                                       amount_b_expected, expiry_ts, taker_pubkey)]
          /\ lamports' = debit(lamports, maker, amount_a)
          /\ escrow_lamports' = credit(escrow_lamports, k, amount_a)
          /\ emitted' =
                 [name |-> "EscrowCreated", escrow |-> k, maker |-> maker,
                  escrow_id |-> escrow_id, amount_a |-> amount_a,
                  amount_b_expected |-> amount_b_expected,
                  expiry_ts |-> expiry_ts, ts |-> now]
          /\ flows' = [flows EXCEPT ![k].deposited_maker = @ + amount_a]
          /\ UNCHANGED <<now, makers>>

\* ------------------------------------------------------------ fund_escrow
\* Account<EscrowAccount> must hold an initialized escrow; has_one = maker.
FundEscrow_accounts(k, maker) ==
    IF ~escrow[k].initialized THEN "AccountNotInitialized"
    ELSE IF escrow[k].maker # maker THEN "ConstraintHasOne"
    ELSE "Ok"

\* A variant without the check that the escrow is active.
fund_escrow_require_no_active_check(k, taker) ==
    IF ~(~escrow[k].is_funded) THEN "AlreadyFunded"
    ELSE IF ~(escrow[k].taker = taker) THEN "Unauthorized"
    ELSE IF ~(now < escrow[k].expiry_ts) THEN "EscrowExpired"
    ELSE "Ok"

\* A variant that lets any signer deposit, whether or not a deposit was made.
fund_escrow_require_open_to_anyone(k, taker) ==
    IF ~escrow[k].is_active THEN "NotActive"
    ELSE IF ~(now < escrow[k].expiry_ts) THEN "EscrowExpired"
    ELSE "Ok"

\* A variant that still takes the deposit at the instant of expiry (<= for <).
fund_escrow_require_at_expiry(k, taker) ==
    IF ~escrow[k].is_active THEN "NotActive"
    ELSE IF ~(~escrow[k].is_funded) THEN "AlreadyFunded"
    ELSE IF ~(escrow[k].taker = taker) THEN "Unauthorized"
    ELSE IF ~(now <= escrow[k].expiry_ts) THEN "EscrowExpired"
    ELSE "Ok"

\* A variant without the check that the escrow is unfunded.
fund_escrow_require_no_funded_check(k, taker) ==
    IF ~escrow[k].is_active THEN "NotActive"
    ELSE IF ~(escrow[k].taker = taker) THEN "Unauthorized"
    ELSE IF ~(now < escrow[k].expiry_ts) THEN "EscrowExpired"
    ELSE "Ok"

fund_escrow_require(k, taker) ==
    IF ~escrow[k].is_active THEN "NotActive"
    ELSE IF ~(~escrow[k].is_funded) THEN "AlreadyFunded"
    ELSE IF ~(escrow[k].taker = taker) THEN "Unauthorized"
    ELSE IF ~(now < escrow[k].expiry_ts) THEN "EscrowExpired"
    ELSE "Ok"

fund_escrow_result(taker, maker, k) ==
    First(<<FundEscrow_accounts(k, maker),
            fund_escrow_require(k, taker),
            transfer_result(taker, escrow[k].amount_b_expected)>>)

\* A variant that forgets to mark the escrow funded.
fund_escrow_account_not_marked(k, taker) ==
    [escrow[k] EXCEPT !.taker = taker]

fund_escrow_account(k, taker) ==
    [escrow[k] EXCEPT !.is_funded = TRUE, !.taker = taker]

fund_escrow(taker, maker, k) ==
    IF fund_escrow_result(taker, maker, k) # "Ok"
    THEN Fail
    ELSE LET amount_b == escrow[k].amount_b_expected
         IN /\ lamports' = debit(lamports, taker, amount_b)
            /\ escrow_lamports' = credit(escrow_lamports, k, amount_b)
            /\ escrow' = [escrow EXCEPT ![k] = fund_escrow_account(k, taker)]
            /\ emitted' =
                   [name |-> "EscrowFunded", escrow |-> k, taker |-> taker,
                    amount_b |-> amount_b, ts |-> now]
            /\ flows' = [flows EXCEPT ![k].deposited_taker = @ + amount_b,
                                      ![k].funded = @ + 1]
            /\ UNCHANGED <<now, makers>>

\* ------------------------------------------------------------ complete_swap
CompleteSwap_accounts(k, maker) ==
    IF ~escrow[k].initialized THEN "AccountNotInitialized"
    ELSE IF escrow[k].maker # maker THEN "ConstraintHasOne"
    ELSE "Ok"

\* A variant that lets the taker complete the swap only before expiry.
complete_swap_require_before_expiry(k, taker) ==
    IF ~escrow[k].is_active THEN "NotActive"
    ELSE IF ~escrow[k].is_funded THEN "NotFunded"
    ELSE IF escrow[k].taker = None THEN "TakerNotSet"
    ELSE IF escrow[k].taker # taker THEN "Unauthorized"
    ELSE IF ~(now < escrow[k].expiry_ts) THEN "EscrowExpired"
    ELSE "Ok"

\* A variant that lets any signer complete the swap.
complete_swap_require_any_signer(k, taker) ==
    IF ~escrow[k].is_active THEN "NotActive"
    ELSE IF ~escrow[k].is_funded THEN "NotFunded"
    ELSE IF escrow[k].taker = None THEN "TakerNotSet"
    ELSE "Ok"

complete_swap_require(k, taker) ==
    IF ~escrow[k].is_active THEN "NotActive"
    ELSE IF ~escrow[k].is_funded THEN "NotFunded"
    ELSE IF escrow[k].taker = None THEN "TakerNotSet"
    ELSE IF escrow[k].taker # taker THEN "Unauthorized"
    ELSE "Ok"

complete_swap_result(taker, maker, k) ==
    First(<<CompleteSwap_accounts(k, maker),
            complete_swap_require(k, taker),
            debit_result(k, escrow[k].amount_a + escrow[k].amount_b_expected)>>)

\* A variant that pays the taker and forgets the maker.
complete_swap_lamports_taker_only(k, taker, maker) ==
    credit(lamports, taker, escrow[k].amount_a)

\* A variant that pays the maker amount_a instead of amount_b_expected.
complete_swap_lamports_maker_gets_a(k, taker, maker) ==
    credit(credit(lamports, taker, escrow[k].amount_a),
           maker, escrow[k].amount_a)

\* The taker is credited amount_a, then the maker amount_b_expected; the two
\* may be one and the same account.
complete_swap_lamports(k, taker, maker) ==
    credit(credit(lamports, taker, escrow[k].amount_a),
           maker, escrow[k].amount_b_expected)

\* A variant that leaves the escrow active after the swap.
complete_swap_account_stays_active(k) ==
    [escrow[k] EXCEPT !.is_funded = FALSE, !.is_completed = TRUE, !.taker = None]

\* A variant that leaves the taker in the completed record.
complete_swap_account_keeps_taker(k) ==
    [escrow[k] EXCEPT !.is_active = FALSE, !.is_funded = FALSE,
                      !.is_completed = TRUE]

\* A variant that forgets to clear is_funded.
complete_swap_account_keeps_funded(k) ==
    [escrow[k] EXCEPT !.is_active = FALSE, !.is_completed = TRUE, !.taker = None]

complete_swap_account(k) ==
    [escrow[k] EXCEPT !.is_active = FALSE, !.is_funded = FALSE,
                      !.is_completed = TRUE, !.taker = None]

complete_swap(taker, maker, k) ==
    IF complete_swap_result(taker, maker, k) # "Ok"
    THEN Fail
    ELSE /\ escrow_lamports' =
              debit(debit(escrow_lamports, k, escrow[k].amount_a),
                    k, escrow[k].amount_b_expected)
         /\ lamports' = complete_swap_lamports(k, taker, maker)
         /\ escrow' = [escrow EXCEPT ![k] = complete_swap_account(k)]
         /\ emitted' =
                [name |-> "EscrowCompleted", escrow |-> k,
                 maker |-> escrow[k].maker, taker |-> taker, ts |-> now]
         /\ flows' = [flows EXCEPT
                ![k].paid_taker = @ + escrow[k].amount_a,
                ![k].paid_maker = @ + escrow[k].amount_b_expected,
                ![k].payouts = Append(@, "complete_swap")]
         /\ UNCHANGED <<now, makers>>

\* ------------------------------------------------------------ cancel_escrow
\* The maker account is the signer here, so has_one = maker binds the caller.
CancelEscrow_accounts(k, maker) ==
    IF ~escrow[k].initialized THEN "AccountNotInitialized"
    ELSE IF escrow[k].maker # maker THEN "ConstraintHasOne"
    ELSE "Ok"

\* A variant that lets the maker cancel only before expiry.
cancel_escrow_require_before_expiry(k, maker) ==
    IF escrow[k].maker # maker THEN "Unauthorized"
    ELSE IF ~escrow[k].is_active THEN "NotActive"
    ELSE IF ~(~escrow[k].is_funded) THEN "AlreadyFunded"
    ELSE IF ~(now < escrow[k].expiry_ts) THEN "EscrowExpired"
    ELSE "Ok"

\* A variant that lets the maker cancel a funded escrow.
cancel_escrow_require_no_funded_check(k, maker) ==
    IF escrow[k].maker # maker THEN "Unauthorized"
    ELSE IF ~escrow[k].is_active THEN "NotActive"
    ELSE "Ok"

cancel_escrow_require(k, maker) ==
    IF escrow[k].maker # maker THEN "Unauthorized"
    ELSE IF ~escrow[k].is_active THEN "NotActive"
    ELSE IF ~(~escrow[k].is_funded) THEN "AlreadyFunded"
    ELSE "Ok"

cancel_escrow_result(maker, k) ==
    First(<<CancelEscrow_accounts(k, maker),
            cancel_escrow_require(k, maker),
            debit_result(k, escrow[k].amount_a)>>)

cancel_escrow_account(k) == [escrow[k] EXCEPT !.is_active = FALSE]

cancel_escrow(maker, k) ==
    IF cancel_escrow_result(maker, k) # "Ok"
    THEN Fail
    ELSE /\ escrow_lamports' = debit(escrow_lamports, k, escrow[k].amount_a)
         /\ lamports' = credit(lamports, maker, escrow[k].amount_a)
         /\ escrow' = [escrow EXCEPT ![k] = cancel_escrow_account(k)]
         /\ emitted' =
                [name |-> "EscrowCancelled", escrow |-> k,
                 maker |-> escrow[k].maker, ts |-> now]
         /\ flows' = [flows EXCEPT
                ![k].refunded_maker = @ + escrow[k].amount_a,
                ![k].payouts = Append(@, "cancel_escrow")]
         /\ UNCHANGED <<now, makers>>

\* ------------------------------------------------------------ refund_after_expiry
RefundAfterExpiry_accounts(k, maker) ==
    IF ~escrow[k].initialized THEN "AccountNotInitialized"
    ELSE IF escrow[k].maker # maker THEN "ConstraintHasOne"
    ELSE "Ok"

\* A variant that lets the maker reclaim a funded escrow after expiry.
refund_after_expiry_require_no_funded_check(k, maker) ==
    IF escrow[k].maker # maker THEN "Unauthorized"
    ELSE IF ~escrow[k].is_active THEN "NotActive"
    ELSE IF ~(now > escrow[k].expiry_ts) THEN "NotExpired"
    ELSE "Ok"

\* A variant that refunds from the instant of expiry on (>= for >).
refund_after_expiry_require_at_expiry(k, maker) ==
    IF escrow[k].maker # maker THEN "Unauthorized"
    ELSE IF ~escrow[k].is_active THEN "NotActive"
    ELSE IF ~(~escrow[k].is_funded) THEN "AlreadyFunded"
    ELSE IF ~(now >= escrow[k].expiry_ts) THEN "NotExpired"
    ELSE "Ok"

refund_after_expiry_require(k, maker) ==
    IF escrow[k].maker # maker THEN "Unauthorized"
    ELSE IF ~escrow[k].is_active THEN "NotActive"
    ELSE IF ~(~escrow[k].is_funded) THEN "AlreadyFunded"
    ELSE IF ~(now > escrow[k].expiry_ts) THEN "NotExpired"
    ELSE "Ok"

refund_after_expiry_result(maker, k) ==
    First(<<RefundAfterExpiry_accounts(k, maker),
            refund_after_expiry_require(k, maker),
            debit_result(k, escrow[k].amount_a)>>)

\* A variant that also marks the refunded escrow completed.
refund_after_expiry_account_completed(k) ==
    [escrow[k] EXCEPT !.is_active = FALSE, !.is_completed = TRUE]

refund_after_expiry_account(k) == [escrow[k] EXCEPT !.is_active = FALSE]

refund_after_expiry(maker, k) ==
    IF refund_after_expiry_result(maker, k) # "Ok"
    THEN Fail
    ELSE /\ escrow_lamports' = debit(escrow_lamports, k, escrow[k].amount_a)
         /\ lamports' = credit(lamports, maker, escrow[k].amount_a)
         /\ escrow' = [escrow EXCEPT ![k] = refund_after_expiry_account(k)]
         /\ emitted' =
                [name |-> "EscrowRefunded", escrow |-> k,
                 maker |-> escrow[k].maker, ts |-> now]
         /\ flows' = [flows EXCEPT
                ![k].refunded_maker = @ + escrow[k].amount_a,
                ![k].payouts = Append(@, "refund_after_expiry")]
         /\ UNCHANGED <<now, makers>>

\* ------------------------------------------------------------ the clock
\* Clock::get: the cluster's time, which only moves forward.
Tick ==
    /\ now < MaxTime
    /\ now' = now + 1
    /\ UNCHANGED <<escrow, escrow_lamports, lamports, emitted, flows, makers>>

\* The accounts of an instruction are validated before its handler runs.
CreateEscrow ==
    \E maker \in makers, escrow_id \in EscrowIds :
        IF CreateEscrow_accounts(<<maker, escrow_id>>) # "Ok"
        THEN Fail
        ELSE \E amount_a \in Amounts, amount_b_expected \in Amounts,
                expiry_ts \in Times, taker_pubkey \in Parties :
                create_escrow(maker, escrow_id, amount_a, amount_b_expected,
                              expiry_ts, taker_pubkey)

FundEscrow == \E taker \in Parties, maker \in Parties, k \in Keys : fund_escrow(taker, maker, k)

CompleteSwap ==
    \E taker \in Parties, maker \in Parties, k \in Keys : complete_swap(taker, maker, k)

CancelEscrow == \E maker \in Parties, k \in Keys : cancel_escrow(maker, k)

RefundAfterExpiry == \E maker \in Parties, k \in Keys : refund_after_expiry(maker, k)

Next ==
    \/ CreateEscrow
    \/ FundEscrow
    \/ CompleteSwap
    \/ CancelEscrow
    \/ RefundAfterExpiry
    \/ Tick

Spec == Init /\ [][Next]_vars

SpecTwo == InitTwo /\ [][Next]_vars

SpecShort == InitShort /\ [][Next]_vars

\* A maker who keeps submitting cancel_escrow for its own escrow has it
\* processed, unless the instruction stops being able to succeed.
MakerCancels(k) == cancel_escrow(k[1], k)

Fairness == \A k \in Keys : WF_vars(MakerCancels(k))

SpecFair == Init /\ [][Next]_vars /\ Fairness
\* ============================================================ properties
RECURSIVE SumOver(_, _)
SumOver(f, S) ==
    IF S = {} THEN 0
    ELSE LET x == CHOOSE y \in S : TRUE IN f[x] + SumOver(f, S \ {x})

\* All party balances plus all escrow held balances.
TotalValue == SumOver(lamports, Parties) + SumOver(escrow_lamports, Keys)

\* The handlers that have paid out of escrow k, in order.
Payouts(k) == flows[k].payouts

Terminal(k) == Len(Payouts(k)) >= 1

OpenUnfunded(k) ==
    escrow[k].initialized /\ escrow[k].is_active /\ ~escrow[k].is_funded

OpenFunded(k) ==
    escrow[k].initialized /\ escrow[k].is_active /\ escrow[k].is_funded

\* C1: total value is conserved by every operation: the sum of all party
\* balances and all escrow held balances is after every call, successful or
\* failed, what it was before it (so it is what it was at the start).
C1_Conservation ==
    /\ TotalValue = Cardinality(Parties) * InitLamports
    /\ \A p \in Parties : lamports[p] >= 0
    /\ \A k \in Keys : escrow_lamports[k] >= 0

\* A swap of unequal amounts has been completed and another escrow is open.
C1_Witness ==
    \E k \in Keys, j \in Keys :
        /\ Payouts(k) = <<"complete_swap">>
        /\ escrow[k].amount_a # escrow[k].amount_b_expected
        /\ OpenUnfunded(j)

\* C2: the held balance of a record is its deposits minus its payouts:
\* amount_a while active and unfunded, amount_a + amount_b_expected while
\* active and funded, 0 once inactive.
C2_HeldBalance ==
    \A k \in Keys :
        /\ escrow_lamports[k] =
              (flows[k].deposited_maker + flows[k].deposited_taker)
              - (flows[k].paid_maker + flows[k].paid_taker + flows[k].refunded_maker)
        /\ OpenUnfunded(k) => escrow_lamports[k] = escrow[k].amount_a
        /\ OpenFunded(k) =>
              escrow_lamports[k] = escrow[k].amount_a + escrow[k].amount_b_expected
        /\ ~escrow[k].is_active => escrow_lamports[k] = 0

\* An escrow holds both deposits, of unequal amounts.
C2_Witness ==
    \E k \in Keys :
        /\ OpenFunded(k)
        /\ escrow_lamports[k] = escrow[k].amount_a + escrow[k].amount_b_expected
        /\ escrow[k].amount_a # escrow[k].amount_b_expected

\* C3: for every record in a terminal state, what maker and taker deposited
\* equals what settle paid to maker and taker plus what was refunded to the
\* maker, and exactly one payout (settle, withdraw or reclaim) ever succeeded.
C3_TerminalConservation ==
    \A k \in Keys :
        /\ Len(Payouts(k)) <= 1
        /\ (escrow[k].initialized /\ ~escrow[k].is_active) <=> Terminal(k)
        /\ Terminal(k) =>
              /\ flows[k].deposited_maker + flows[k].deposited_taker =
                    flows[k].paid_maker + flows[k].paid_taker + flows[k].refunded_maker
              /\ flows[k].deposited_maker = escrow[k].amount_a
              /\ flows[k].deposited_taker \in {0, escrow[k].amount_b_expected}

\* An escrow that both parties paid into has ended in a swap.
C3_Witness ==
    \E k \in Keys :
        /\ Payouts(k) = <<"complete_swap">>
        /\ flows[k].deposited_taker > 0
        /\ flows[k].paid_maker # flows[k].paid_taker
\* C4 as stated: once settle, withdraw or reclaim has succeeded on a record,
\* every later call of any of the five operations on it fails with NotActive
\* (accept and settle given the record's maker account, by any signer).
C4_AllFailNotActive ==
    \A k \in Keys : Terminal(k) =>
        /\ \A a \in Amounts, b \in Amounts, t \in Times :
              create_escrow_result(k[1], k[2], a, b, t) = "NotActive"
        /\ \A c \in Parties :
              /\ fund_escrow_result(c, escrow[k].maker, k) = "NotActive"
              /\ complete_swap_result(c, escrow[k].maker, k) = "NotActive"
              /\ cancel_escrow_result(c, k) = "NotActive"
              /\ refund_after_expiry_result(c, k) = "NotActive"

\* C4, amended: once settle, withdraw or reclaim has succeeded on a record,
\* every later call of any of the five operations on it fails.  The error is
\* NotActive for accept and settle by any signer and for withdraw and reclaim
\* by the maker; a call that names another account as the maker (withdraw or
\* reclaim by a non-maker among them) is rejected by has_one = maker with
\* ConstraintHasOne, and open is rejected by init with AccountAlreadyInUse.
C4_TerminalMonotonic ==
    \A k \in Keys : Terminal(k) =>
        /\ \A a \in Amounts, b \in Amounts, t \in Times :
              create_escrow_result(k[1], k[2], a, b, t) = "AccountAlreadyInUse"
        /\ \A c \in Parties, m \in Parties :
              /\ fund_escrow_result(c, m, k) =
                    IF m = escrow[k].maker THEN "NotActive" ELSE "ConstraintHasOne"
              /\ complete_swap_result(c, m, k) =
                    IF m = escrow[k].maker THEN "NotActive" ELSE "ConstraintHasOne"
        /\ \A c \in Parties :
              /\ cancel_escrow_result(c, k) =
                    IF c = escrow[k].maker THEN "NotActive" ELSE "ConstraintHasOne"
              /\ refund_after_expiry_result(c, k) =
                    IF c = escrow[k].maker THEN "NotActive" ELSE "ConstraintHasOne"

\* A swap has been settled before the expiry of its escrow, and the maker
\* could still pay for a new offer.
C4_Witness ==
    \E k \in Keys :
        /\ Payouts(k) = <<"complete_swap">>
        /\ now < escrow[k].expiry_ts
        /\ lamports[escrow[k].maker] >= 1

\* C5 (I4): once is_active of a record has become false, no operation makes it
\* true again, a repeated open with the same maker and escrow_id included.
C5_NeverReactivated ==
    [][\A k \in Keys :
          (escrow[k].initialized /\ ~escrow[k].is_active)
              => (escrow'[k].initialized /\ ~escrow'[k].is_active)]_vars

\* An inactive record whose maker calls open again with the same escrow_id and
\* with amounts, expiry and balance that a first open would accept.
C5_Witness ==
    \E k \in Keys :
        /\ escrow[k].initialized /\ ~escrow[k].is_active
        /\ create_escrow_require(1, 1, MaxTime) = "Ok"
        /\ transfer_result(k[1], 1) = "Ok"
        /\ create_escrow_result(k[1], k[2], 1, 1, MaxTime) = "AccountAlreadyInUse"

\* C6 as stated: once accept has succeeded on a record, every later accept on
\* it fails with AlreadyFunded, whatever was called in between.
C6_SecondAcceptAlreadyFunded ==
    \A k \in Keys : flows[k].funded >= 1 =>
        \A c \in Parties : fund_escrow_result(c, escrow[k].maker, k) = "AlreadyFunded"

\* C6, amended: once accept has succeeded on a record, every later accept on
\* it fails: with AlreadyFunded while the record is still active, with
\* NotActive once settle has succeeded on it; amount_b_expected is deposited
\* at most once per record.
C6_NoDoubleFunding ==
    \A k \in Keys :
        /\ flows[k].funded <= 1
        /\ flows[k].deposited_taker = flows[k].funded * escrow[k].amount_b_expected
        /\ flows[k].funded >= 1 =>
              \A c \in Parties, m \in Parties :
                  fund_escrow_result(c, m, k) =
                      IF m # escrow[k].maker THEN "ConstraintHasOne"
                      ELSE IF escrow[k].is_active THEN "AlreadyFunded"
                      ELSE "NotActive"

\* A funded, active record whose taker could pay again and is still in time:
\* only the funded flag stands between the taker and a second deposit.
C6_Witness ==
    \E k \in Keys :
        /\ flows[k].funded = 1
        /\ OpenFunded(k)
        /\ now < escrow[k].expiry_ts
        /\ lamports[escrow[k].taker] >= escrow[k].amount_b_expected
\* C7: on an active, unfunded record, reclaim by the maker fails with
\* NotExpired whenever now <= expiry_ts (the instant expiry_ts included) and
\* succeeds when now > expiry_ts; no reclaim ever succeeds at a time <= expiry_ts.
C7_NoRefundBeforeExpiry ==
    /\ \A k \in Keys : OpenUnfunded(k) =>
          refund_after_expiry_result(escrow[k].maker, k) =
              IF now <= escrow[k].expiry_ts THEN "NotExpired" ELSE "Ok"
    /\ emitted.name = "EscrowRefunded" =>
          emitted.ts > escrow[emitted.escrow].expiry_ts

\* An escrow has been refunded at the first instant after its expiry.
C7_Witness ==
    /\ emitted.name = "EscrowRefunded"
    /\ Payouts(emitted.escrow) = <<"refund_after_expiry">>
    /\ emitted.ts = escrow[emitted.escrow].expiry_ts + 1

Settles(k) == flows'[k].payouts = Append(flows[k].payouts, "complete_swap")

SettledAccount(k) ==
    [escrow[k] EXCEPT !.is_active = FALSE, !.is_funded = FALSE,
                      !.is_completed = TRUE, !.taker = None]

\* C9 as stated: a successful settle increases the taker's balance by exactly
\* amount_a and the maker's by exactly amount_b_expected, takes the held
\* balance down by their sum to 0, and leaves is_active = false,
\* is_funded = false, is_completed = true and the taker cleared.
C9_SettlementEffect ==
    [][\A k \in Keys : Settles(k) =>
          /\ lamports'[escrow[k].taker] = lamports[escrow[k].taker] + escrow[k].amount_a
          /\ lamports'[escrow[k].maker] =
                lamports[escrow[k].maker] + escrow[k].amount_b_expected
          /\ escrow_lamports'[k] =
                escrow_lamports[k] - (escrow[k].amount_a + escrow[k].amount_b_expected)
          /\ escrow_lamports'[k] = 0
          /\ escrow'[k] = SettledAccount(k)]_vars

\* C9, amended: a successful settle pays amount_a to the taker and
\* amount_b_expected to the maker: when they are distinct identities the
\* taker's balance grows by exactly amount_a and the maker's by exactly
\* amount_b_expected, and when the record's taker is its maker that one
\* balance grows by amount_a + amount_b_expected; no other balance changes;
\* the held balance goes down by amount_a + amount_b_expected to 0, and the
\* record is left with is_active = false, is_funded = false,
\* is_completed = true and the taker cleared.  No state shows only one of the
\* two payouts or only some of the flag writes.
C9_SettlementEffectAmended ==
    /\ [][\A k \in Keys : Settles(k) =>
            /\ \A p \in Parties :
                  lamports'[p] = lamports[p]
                     + (IF p = escrow[k].taker THEN escrow[k].amount_a ELSE 0)
                     + (IF p = escrow[k].maker THEN escrow[k].amount_b_expected ELSE 0)
            /\ escrow_lamports'[k] =
                  escrow_lamports[k] - (escrow[k].amount_a + escrow[k].amount_b_expected)
            /\ escrow_lamports'[k] = 0
            /\ escrow'[k] = SettledAccount(k)]_vars
    /\ [](\A k \in Keys :
            IF Payouts(k) = <<"complete_swap">>
            THEN /\ flows[k].paid_taker = escrow[k].amount_a
                 /\ flows[k].paid_maker = escrow[k].amount_b_expected
                 /\ ~escrow[k].is_active /\ ~escrow[k].is_funded
                 /\ escrow[k].is_completed /\ escrow[k].taker = None
            ELSE /\ flows[k].paid_taker = 0 /\ flows[k].paid_maker = 0
                 /\ ~escrow[k].is_completed
                 /\ escrow[k].initialized => escrow[k].taker # None)

\* A swap of unequal amounts between two distinct parties has just been settled.
C9_Witness ==
    /\ emitted.name = "EscrowCompleted"
    /\ emitted.taker # emitted.maker
    /\ Payouts(emitted.escrow) = <<"complete_swap">>
    /\ escrow[emitted.escrow].amount_a # escrow[emitted.escrow].amount_b_expected

\* C10: the step a successful withdraw or reclaim takes on record k.
Refunds(k) ==
    \/ flows'[k].payouts = Append(flows[k].payouts, "cancel_escrow")
    \/ flows'[k].payouts = Append(flows[k].payouts, "refund_after_expiry")

\* C10: a successful withdraw and a successful reclaim have the same effect:
\* the maker's balance grows by exactly amount_a, the held balance drops to 0,
\* is_active becomes false and every other field of the record is unchanged
\* (is_completed stays false); a later accept on the record fails with NotActive.
C10_RefundEffect ==
    /\ [][\A k \in Keys : Refunds(k) =>
            /\ \A p \in Parties :
                  lamports'[p] = lamports[p]
                     + (IF p = escrow[k].maker THEN escrow[k].amount_a ELSE 0)
            /\ escrow_lamports[k] = escrow[k].amount_a
            /\ escrow_lamports'[k] = 0
            /\ escrow'[k] = [escrow[k] EXCEPT !.is_active = FALSE]
            /\ ~escrow'[k].is_completed /\ ~escrow'[k].is_funded
            /\ cancel_escrow_account(k) = refund_after_expiry_account(k)]_vars
    /\ [](\A k \in Keys :
            Payouts(k) \in {<<"cancel_escrow">>, <<"refund_after_expiry">>} =>
                /\ ~escrow[k].is_active /\ ~escrow[k].is_completed
                /\ \A c \in Parties :
                      fund_escrow_result(c, escrow[k].maker, k) = "NotActive")

\* An escrow has been withdrawn before its expiry, and its taker, who is not
\* the maker, could still pay: only is_active stands against an accept.
C10_Witness ==
    \E k \in Keys :
        /\ Payouts(k) = <<"cancel_escrow">>
        /\ now < escrow[k].expiry_ts
        /\ escrow[k].taker # escrow[k].maker
        /\ lamports[escrow[k].taker] >= escrow[k].amount_b_expected
\* C11: accept succeeds only while now < expiry_ts; on an active, unfunded
\* record, accept by the designated taker at any time >= expiry_ts fails with
\* EscrowExpired, deposits nothing and leaves is_funded false.
C11_AcceptDeadline ==
    /\ \A k \in Keys : (OpenUnfunded(k) /\ now >= escrow[k].expiry_ts) =>
          /\ fund_escrow_result(escrow[k].taker, escrow[k].maker, k) = "EscrowExpired"
          /\ flows[k].deposited_taker = 0
    /\ \A k \in Keys, c \in Parties, m \in Parties :
          fund_escrow_result(c, m, k) = "Ok" => now < escrow[k].expiry_ts
    /\ emitted.name = "EscrowFunded" =>
          emitted.ts < escrow[emitted.escrow].expiry_ts

\* An active, unfunded record exactly at its expiry instant, whose designated
\* taker could pay the deposit.
C11_Witness ==
    \E k \in Keys :
        /\ OpenUnfunded(k)
        /\ now = escrow[k].expiry_ts
        /\ lamports[escrow[k].taker] >= escrow[k].amount_b_expected
\* C12: whenever one of the five operations fails, because a precondition does
\* not hold or because the payer cannot afford the transfer of open or accept
\* (in open the transfer comes after the field writes), the record's fields,
\* the held balance, every party's balance and the event log are as before:
\* no step that changes anything is the step of a failing call.
C12_NoPartialEffect ==
    [][vars' # vars =>
        /\ ~ \E maker \in Parties, escrow_id \in EscrowIds, amount_a \in Amounts,
                amount_b_expected \in Amounts, expiry_ts \in Times, taker_pubkey \in Parties :
                /\ \/ amount_a = 0
                   \/ amount_b_expected = 0
                   \/ expiry_ts <= now
                   \/ lamports[maker] < amount_a
                   \/ escrow[<<maker, escrow_id>>].initialized
                /\ create_escrow(maker, escrow_id, amount_a, amount_b_expected,
                                 expiry_ts, taker_pubkey)
        /\ ~ \E taker \in Parties, maker \in Parties, k \in Keys :
                /\ \/ ~escrow[k].is_active
                   \/ escrow[k].is_funded
                   \/ escrow[k].taker # taker
                   \/ now >= escrow[k].expiry_ts
                   \/ lamports[taker] < escrow[k].amount_b_expected
                /\ fund_escrow(taker, maker, k)
        /\ ~ \E taker \in Parties, maker \in Parties, k \in Keys :
                /\ \/ ~escrow[k].is_active
                   \/ ~escrow[k].is_funded
                   \/ escrow[k].taker # taker
                /\ complete_swap(taker, maker, k)
        /\ ~ \E maker \in Parties, k \in Keys :
                /\ \/ escrow[k].maker # maker
                   \/ ~escrow[k].is_active
                   \/ escrow[k].is_funded
                /\ cancel_escrow(maker, k)
        /\ ~ \E maker \in Parties, k \in Keys :
                /\ \/ escrow[k].maker # maker
                   \/ ~escrow[k].is_active
                   \/ escrow[k].is_funded
                   \/ now <= escrow[k].expiry_ts
                /\ refund_after_expiry(maker, k)
      ]_vars

\* An open record whose designated taker passes every check of accept but
\* cannot afford the deposit (in the initial state of SpecShort the maker is in
\* the same position for an open of MaxAmount).
C12_Witness ==
    \E k \in Keys :
        /\ OpenUnfunded(k)
        /\ fund_escrow_result(escrow[k].taker, escrow[k].maker, k)
               = "InsufficientLamports"
        /\ \E amount_a \in Amounts :
              lamports[escrow[k].maker] + escrow[k].amount_a < amount_a
\* C13: in every reachable state is_completed implies that is_active and
\* is_funded are both false, and is_completed is true only for a record on
\* which settle has succeeded, never after a withdraw or a reclaim.
C13_CompletedFlag ==
    \A k \in Keys :
        escrow[k].is_completed =>
            /\ ~escrow[k].is_active
            /\ ~escrow[k].is_funded
            /\ Payouts(k) = <<"complete_swap">>
            /\ flows[k].refunded_maker = 0

\* A record that complete_swap has just completed.
C13_Witness ==
    \E k \in Keys :
        /\ escrow[k].is_completed
        /\ emitted.name = "EscrowCompleted"
        /\ emitted.escrow = k
\* C14 as stated: once accept has succeeded on a record, the record's taker
\* field has the same value in every later state, whatever operations follow.
C14_TakerNeverChanges ==
    [][\A k \in Keys :
          flows[k].funded >= 1 => escrow'[k].taker = escrow[k].taker]_vars

\* C14, amended: once accept has succeeded on a record, its taker field keeps
\* the identity that deposited until settle succeeds, which clears the field;
\* the field never holds another identity, and stays cleared afterwards.
C14_TakerFixedUntilSettled ==
    [][\A k \in Keys :
          flows[k].funded >= 1 =>
              \/ /\ escrow'[k].taker = escrow[k].taker
                 /\ ~Settles(k)
              \/ /\ Settles(k)
                 /\ escrow[k].taker \in Parties
                 /\ escrow'[k].taker = None]_vars

\* A funded record past its expiry, whose taker is still the party that
\* deposited.
C14_Witness ==
    \E k \in Keys :
        /\ OpenFunded(k)
        /\ flows[k].funded = 1
        /\ now > escrow[k].expiry_ts
        /\ escrow[k].taker \in Parties
C16_MakerRecoversAfterExpiry ==
    \A k \in Keys :
        (escrow[k].is_active /\ ~escrow[k].is_completed /\ now > escrow[k].expiry_ts) =>
            \/ cancel_escrow_result(escrow[k].maker, k) = "Ok"
            \/ refund_after_expiry_result(escrow[k].maker, k) = "Ok"
            \/ complete_swap_result(escrow[k].maker, escrow[k].maker, k) = "Ok"
\* C17: the order of the precondition checks determines the error reported
\* when several fail. accept: NotActive, AlreadyFunded, Unauthorized,
\* EscrowExpired; settle: NotActive, NotFunded, TakerNotSet, Unauthorized;
\* withdraw: Unauthorized, NotActive, AlreadyFunded; reclaim: Unauthorized,
\* NotActive, AlreadyFunded, NotExpired. The first failing check of the list
\* is the error of the call, by any caller on any existing record.
C17_ErrorOrder ==
    \A k \in Keys, caller \in Parties :
        escrow[k].initialized =>
            LET e == escrow[k]
                accept ==
                    IF ~e.is_active THEN "NotActive"
                    ELSE IF e.is_funded THEN "AlreadyFunded"
                    ELSE IF e.taker # caller THEN "Unauthorized"
                    ELSE IF now >= e.expiry_ts THEN "EscrowExpired"
                    ELSE "Ok"
                settle ==
                    IF ~e.is_active THEN "NotActive"
                    ELSE IF ~e.is_funded THEN "NotFunded"
                    ELSE IF e.taker = None THEN "TakerNotSet"
                    ELSE IF e.taker # caller THEN "Unauthorized"
                    ELSE "Ok"
                withdraw ==
                    IF e.maker # caller THEN "Unauthorized"
                    ELSE IF ~e.is_active THEN "NotActive"
                    ELSE IF e.is_funded THEN "AlreadyFunded"
                    ELSE "Ok"
                reclaim ==
                    IF e.maker # caller THEN "Unauthorized"
                    ELSE IF ~e.is_active THEN "NotActive"
                    ELSE IF e.is_funded THEN "AlreadyFunded"
                    ELSE IF now <= e.expiry_ts THEN "NotExpired"
                    ELSE "Ok"
            IN  /\ accept # "Ok" => fund_escrow_result(caller, e.maker, k) = accept
                /\ settle # "Ok" => complete_swap_result(caller, e.maker, k) = settle
                /\ withdraw # "Ok" => cancel_escrow_result(caller, k) = withdraw
                /\ reclaim # "Ok" => refund_after_expiry_result(caller, k) = reclaim
\* C18: open of a new record fails with InvalidAmount if amount_a = 0 or
\* amount_b_expected = 0 (checked before the expiry) and with InvalidExpiry if
\* expiry_ts is not strictly after the current time (expiry_ts = now included);
\* in both cases no record is created and no value moves. A successful open
\* creates the record with is_funded = false, is_active = true,
\* is_completed = false and taker set to the identity given, and moves exactly
\* amount_a from the maker to the record's held balance.
C18_OpenValidation ==
    /\ [](\A maker \in Parties, escrow_id \in EscrowIds, amount_a \in Amounts,
             amount_b_expected \in Amounts, expiry_ts \in Times :
             ~escrow[<<maker, escrow_id>>].initialized =>
                 LET res == create_escrow_result(maker, escrow_id, amount_a,
                                                 amount_b_expected, expiry_ts)
                 IN  /\ (amount_a = 0 \/ amount_b_expected = 0) => res = "InvalidAmount"
                     /\ (amount_a > 0 /\ amount_b_expected > 0 /\ expiry_ts <= now)
                            => res = "InvalidExpiry"
                     /\ (amount_a > 0 /\ amount_b_expected > 0 /\ expiry_ts > now
                            /\ lamports[maker] >= amount_a) => res = "Ok")
    /\ [][\A maker \in Parties, escrow_id \in EscrowIds :
             LET k == <<maker, escrow_id>>
             IN  (~escrow[k].initialized /\ escrow'[k] # escrow[k]) =>
                   /\ \E amount_a \in Amounts, amount_b_expected \in Amounts,
                         expiry_ts \in Times, taker_pubkey \in Parties :
                         create_escrow(maker, escrow_id, amount_a,
                                       amount_b_expected, expiry_ts, taker_pubkey)
                   /\ \A amount_a \in Amounts, amount_b_expected \in Amounts,
                         expiry_ts \in Times, taker_pubkey \in Parties :
                         create_escrow(maker, escrow_id, amount_a,
                                       amount_b_expected, expiry_ts, taker_pubkey)
                         => /\ amount_a > 0
                            /\ amount_b_expected > 0
                            /\ expiry_ts > now
                            /\ escrow'[k].initialized
                            /\ ~escrow'[k].is_funded
                            /\ escrow'[k].is_active
                            /\ ~escrow'[k].is_completed
                            /\ escrow'[k].taker = taker_pubkey
                            /\ escrow'[k].maker = maker
                            /\ escrow'[k].amount_a = amount_a
                            /\ escrow'[k].amount_b_expected = amount_b_expected
                            /\ escrow'[k].expiry_ts = expiry_ts
                            /\ lamports' = [lamports EXCEPT ![maker] = @ - amount_a]
                            /\ escrow_lamports' =
                                   [escrow_lamports EXCEPT ![k] = @ + amount_a]
                            /\ \A j \in Keys \ {k} : escrow'[j] = escrow[j]]_vars

\* A record that open has just created at a time after the start of the
\* clock, so that an expiry equal to the time of the call was among the inputs.
C18_Witness ==
    \E k \in Keys :
        /\ emitted.name = "EscrowCreated"
        /\ emitted.escrow = k
        /\ emitted.ts >= 1
        /\ OpenUnfunded(k)
        /\ escrow_lamports[k] = escrow[k].amount_a
\* C19: after a record is created, its maker, escrow_id, amount_a,
\* amount_b_expected, expiry_ts and bump have the same values in every later
\* state, and amount_a > 0 and amount_b_expected > 0 in every reachable state.
C19_TermsImmutable ==
    /\ [](\A k \in Keys :
            escrow[k].initialized =>
                /\ escrow[k].amount_a > 0
                /\ escrow[k].amount_b_expected > 0)
    /\ [][\A k \in Keys :
            escrow[k].initialized =>
                /\ escrow'[k].initialized
                /\ escrow'[k].maker = escrow[k].maker
                /\ escrow'[k].escrow_id = escrow[k].escrow_id
                /\ escrow'[k].amount_a = escrow[k].amount_a
                /\ escrow'[k].amount_b_expected = escrow[k].amount_b_expected
                /\ escrow'[k].expiry_ts = escrow[k].expiry_ts
                /\ escrow'[k].bump = escrow[k].bump]_vars

\* A record that has been through open, accept and settle, with amounts that
\* differ, seen when the clock has run out.
C19_Witness ==
    \E k \in Keys :
        /\ Payouts(k) = <<"complete_swap">>
        /\ escrow[k].amount_a # escrow[k].amount_b_expected
        /\ k = <<escrow[k].maker, escrow[k].escrow_id>>
        /\ now = MaxTime
\* C20: where a record stands in its life, read from its flags and from the
\* handler that paid it out.
Phase(e, payouts) ==
    IF ~e.initialized THEN "Uninitialized"
    ELSE IF e.is_active THEN (IF e.is_funded THEN "OpenFunded" ELSE "OpenUnfunded")
    ELSE IF e.is_completed THEN "Completed"
    ELSE IF payouts = <<"cancel_escrow">> THEN "Withdrawn"
    ELSE IF payouts = <<"refund_after_expiry">> THEN "Refunded"
    ELSE "Unknown"

LifecycleEdges ==
    { <<"Uninitialized", "OpenUnfunded">>,
      <<"OpenUnfunded", "OpenFunded">>,
      <<"OpenFunded", "Completed">>,
      <<"OpenUnfunded", "Withdrawn">>,
      <<"OpenUnfunded", "Refunded">> }

Funds(k) == flows'[k].funded = flows[k].funded + 1

C22_TakerSet ==
    \A k \in Keys :
        /\ escrow[k].initialized =>
              /\ escrow[k].is_active => escrow[k].taker \in Parties
              /\ escrow[k].taker = None <=> escrow[k].is_completed
              /\ (escrow[k].is_active /\ escrow[k].is_funded) => escrow[k].taker # None
        /\ \A caller \in Parties, maker \in Parties :
              complete_swap_result(caller, maker, k) # "TakerNotSet"

\* A completed record, whose taker is cleared, on which a further settle by
\* the former taker is turned away as NotActive.
C22_Witness ==
    \E k \in Keys :
        /\ escrow[k].is_completed
        /\ escrow[k].taker = None
        /\ \A caller \in Parties :
              complete_swap_result(caller, escrow[k].maker, k) = "NotActive"
====
